---- MODULE Spec2Model ----
(***************************************************************************)
(* Model of affluences-helper.                                             *)
(*                                                                         *)
(*  - src/main.py: the one-shot reservation script (lookup loop,           *)
(*    get_available, must_contain, complete_places, favourite selection,   *)
(*    fallback, make_reservation).                                         *)
(*  - src/availability.py: the bot's get_available_seats / format_results  *)
(*    / check_command pipeline.                                            *)
(*                                                                         *)
(* A watch ("HH:MM") is a sequence of one-character strings, so that       *)
(* formatting and parsing are modelled by what they do.                    *)
(***************************************************************************)
EXTENDS Integers, Sequences, FiniteSets, TLC

VARIABLES
    \* ---- src/main.py ----
    start_hour,      \* configuration: start of the required window (a watch)
    duration,        \* configuration: length of the required window, minutes
    inventory,       \* resource ids the reservation service knows in this run
    pc,              \* position of the script
    counter,         \* loop counter of the lookup loop
    places,          \* list of Place records
    must_contain,    \* set of required watches
    complete_places, \* list of Place records covering must_contain
    target,          \* <<place>> handed to make_reservation, <<>> before
    via,             \* "none" | "favorite" | "fallback"
    rcounter,        \* loop counter of make_reservation
    lookups,         \* log of the GET parameters issued
    bookings,        \* log of the reserve_place calls issued
    outcome,         \* how the run ended
    returned,        \* log: resid -> bookable watches returned so far
    lastResponse,    \* log: the last lookup body handed to get_available
    lookupFailed,    \* log: some lookup answered with an HTTP error
    \* ---- src/availability.py ----
    time_slot,       \* requested watch
    botpc,           \* position of check_command / get_available_seats
    room_types,      \* room types still to be fetched
    results,         \* list of [room, seats] in insertion order
    fetched,         \* log: list of [room, resources] bodies received
    typeLookups,     \* log: resource types looked up
    reply            \* what check_command answered

scriptVars == <<start_hour, duration, inventory, pc, counter, places,
                must_contain, complete_places, target, via, rcounter,
                lookups, bookings, outcome, returned, lastResponse,
                lookupFailed>>
botVars == <<time_slot, botpc, room_types, results, fetched, typeLookups, reply>>
vars == <<scriptVars, botVars>>

(***************************************************************************)
(* Bounds of the model.                                                    *)
(***************************************************************************)
\* most resource records in one lookup body of the script
MaxRecords == 2
\* longest required window, in slots, of the window specification
MaxSlots == 17
\* most resource records the bot receives in one run, over all its lookups
MaxSeatRecords == 2
\* most slots in the hours of one resource the bot receives
MaxHours == 3

(***************************************************************************)
(* Watches: formatting and parsing (src/main.py 23-29).                    *)
(***************************************************************************)
DigitChars == <<"0", "1", "2", "3", "4", "5", "6", "7", "8", "9">>
IsDigit(c) == \E d \in 1..10 : DigitChars[d] = c
DigitValue(c) == (CHOOSE d \in 1..10 : DigitChars[d] = c) - 1

Min(a, b) == IF a < b THEN a ELSE b

\* str(n) for n >= 0
RECURSIVE Decimal(_)
Decimal(n) ==
    IF n < 10 THEN <<DigitChars[n + 1]>>
    ELSE Decimal(n \div 10) \o <<DigitChars[(n % 10) + 1]>>

\* "{:02}".format(n) for n >= 0
Format02(n) == IF n < 10 THEN <<"0">> \o Decimal(n) ELSE Decimal(n)

\* int(s) for a non-empty digit string
RECURSIVE ParseInt(_)
ParseInt(s) ==
    IF Len(s) = 0 THEN 0
    ELSE 10 * ParseInt(SubSeq(s, 1, Len(s) - 1)) + DigitValue(s[Len(s)])

\* s.split(":")
RECURSIVE Split(_)
Split(s) ==
    IF \A i \in 1..Len(s) : s[i] # ":" THEN <<s>>
    ELSE LET i == CHOOSE k \in 1..Len(s) :
                      s[k] = ":" /\ \A j \in 1..(k - 1) : s[j] # ":"
         IN <<SubSeq(s, 1, i - 1)>> \o Split(SubSeq(s, i + 1, Len(s)))

watch_to_minutes(watch) ==
    LET parts == Split(watch)
    IN ParseInt(parts[1]) * 60 + ParseInt(parts[2])

minutes_to_watch(minutes) ==
    Format02(minutes \div 60) \o <<":">> \o Format02(minutes % 60)

(***************************************************************************)
(* Configuration of the script (src/main.py 4-10, 35-36).                  *)
(***************************************************************************)
favorite_spots ==
    <<11, 46, 47, 13, 23, 25, 35, 48, 58, 9, 7, 5, 12, 10, 8, 6, 15, 17, 19,
      21, 27, 29, 31, 33, 44, 42, 50, 52, 54, 56>>
pattern == "Posto a sedere "
granularity == 30
maxres == 30 * 8

(***************************************************************************)
(* The reservation service as the script sees it: resource records.        *)
(* A resource_name is [prefix, rest]; re.match(pattern, name) succeeds     *)
(* when the prefix is the pattern's literal and rest starts with a digit.  *)
(***************************************************************************)
ResourceNames ==
    [r \in {101, 102, 103, 104} |->
        CASE r = 101 -> [prefix |-> "Posto a sedere ", rest |-> <<"4", "7">>]
          [] r = 102 -> [prefix |-> "Posto a sedere ", rest |-> <<"4", "6">>]
          [] r = 103 -> [prefix |-> "Posto a sedere ", rest |-> <<"6", "0">>]
          [] r = 104 -> [prefix |-> "Aula studio ", rest |-> <<"3">>]]

AllResources == DOMAIN ResourceNames

\* the hours a lookup of (st, d) lists: the slots of the sub-window
WindowWatches(st, d) ==
    [k \in 1..(d \div granularity) |->
        minutes_to_watch(watch_to_minutes(st) + granularity * (k - 1))]

HourShapes == {"all", "drop_last", "no_hours"}

ResourceRecord(r, shape, st, d) ==
    LET ws == WindowWatches(st, d)
    IN [resource_id |-> r,
        resource_name |-> ResourceNames[r],
        has_hours |-> shape # "no_hours",
        hours |-> IF shape = "no_hours" THEN <<>>
                  ELSE [k \in 1..Len(ws) |->
                          [hour |-> ws[k],
                           places_bookable |->
                               IF shape = "drop_last" /\ k = Len(ws)
                               THEN 0 ELSE 1]]]

\* resource ids in ascending or descending order, without repetition
ResidSeqs(inv) ==
    {s \in UNION {[1..n -> inv] : n \in 0..MaxRecords} :
        \/ \A i \in 1..(Len(s) - 1) : s[i] < s[i + 1]
        \/ \A i \in 1..(Len(s) - 1) : s[i] > s[i + 1]}

Responses(inv, st, d) ==
    UNION {{[k \in 1..Len(s) |-> ResourceRecord(s[k], sh[k], st, d)] :
              sh \in [1..Len(s) -> HourShapes]} : s \in ResidSeqs(inv)}

(***************************************************************************)
(* get_available (src/main.py 40-70).                                      *)
(***************************************************************************)
\* re.match(pattern, resource_name): the digits of group(1), <<>> for None
RECURSIVE LeadingDigits(_)
LeadingDigits(s) ==
    IF Len(s) = 0 \/ ~IsDigit(Head(s)) THEN <<>>
    ELSE <<Head(s)>> \o LeadingDigits(Tail(s))

Match(name) ==
    IF name.prefix = pattern THEN LeadingDigits(name.rest) ELSE <<>>

Place(number, availability, resid) ==
    [number |-> number, availability |-> availability, resid |-> resid]

\* the bookable watches of one record (lines 63-67)
BookableHours(hours) ==
    {hours[k].hour : k \in {j \in 1..Len(hours) : hours[j].places_bookable = 1}}

\* one iteration of `for resource in resources` (lines 46-70): the new list
\* and the exception raised, "none" when the iteration ends normally
ProcessResource(resource, ps) ==
    LET m == Match(resource.resource_name)
    IN IF m = <<>> THEN [places |-> ps, error |-> "none"]
       ELSE LET identifier == ParseInt(m)
                resid == resource.resource_id
                found == \E i \in 1..Len(ps) : ps[i].resid = resid
            IN IF ~resource.has_hours
               THEN [places |-> ps, error |-> "KeyError"]
               ELSE IF found
                    \* the slots go to the fresh set `availability`, not to
                    \* the set of the place found
                    THEN [places |-> ps, error |-> "none"]
                    ELSE [places |->
                            Append(ps, Place(identifier,
                                             BookableHours(resource.hours),
                                             resid)),
                          error |-> "none"]

RECURSIVE GetAvailableFrom(_, _, _)
GetAvailableFrom(resources, i, ps) ==
    IF i > Len(resources) THEN [places |-> ps, error |-> "none"]
    ELSE LET r == ProcessResource(resources[i], ps)
         IN IF r.error # "none" THEN r
            ELSE GetAvailableFrom(resources, i + 1, r.places)

get_available(resources, ps) == GetAvailableFrom(resources, 1, ps)

\* log: the bookable watches a body returns for resource id r
ReturnedFor(resources, r) ==
    UNION {BookableHours(resources[k].hours) :
             k \in {j \in 1..Len(resources) : resources[j].resource_id = r}}

(***************************************************************************)
(* The lookup loop (src/main.py 72-84).                                    *)
(***************************************************************************)
LookupParams(c) ==
    [start_hour |-> minutes_to_watch(watch_to_minutes(start_hour) + c),
     duration |-> Min(maxres, duration - c)]

Lookup ==
    /\ pc = "lookup"
    /\ counter < duration
    /\ LET params == LookupParams(counter)
       IN /\ lookups' = Append(lookups, params)
          /\ \/ \* the service answers 200 with a list of resources
                \E resources \in Responses(inventory, params.start_hour,
                                           params.duration) :
                   LET r == get_available(resources, places)
                   IN /\ places' = r.places
                      /\ lastResponse' = <<resources>>
                      /\ returned' =
                            [x \in AllResources |->
                                returned[x] \cup ReturnedFor(resources, x)]
                      /\ IF r.error = "none"
                         THEN /\ counter' = counter + params.duration
                              /\ UNCHANGED <<pc, outcome>>
                         ELSE /\ pc' = "crashed"
                              /\ outcome' = r.error
                              /\ UNCHANGED counter
                      /\ UNCHANGED lookupFailed
             \/ \* the service answers with an error status and a JSON list
                \* body: the status is never read, the body is processed
                /\ lookupFailed' = TRUE
                /\ lastResponse' = <<>>
                /\ counter' = counter + params.duration
                /\ UNCHANGED <<places, returned, pc, outcome>>
             \/ \* requests.get or res.json() raises
                /\ lookupFailed' = TRUE
                /\ lastResponse' = <<>>
                /\ pc' = "crashed"
                /\ outcome' = "RequestException"
                /\ UNCHANGED <<places, returned, counter>>
    /\ UNCHANGED <<start_hour, duration, inventory, must_contain,
                   complete_places, target, via, rcounter, bookings>>
    /\ UNCHANGED botVars

(***************************************************************************)
(* must_contain and complete_places (src/main.py 86-95).                   *)
(***************************************************************************)
\* variant: the loop runs while counter <= duration
RECURSIVE MustContainFromInclusive(_, _, _, _)
MustContainFromInclusive(start_minutes, c, d, acc) ==
    IF c <= d
    THEN MustContainFromInclusive(start_minutes, c + granularity, d,
                                  acc \cup {minutes_to_watch(start_minutes + c)})
    ELSE acc

RECURSIVE MustContainFrom(_, _, _, _)
MustContainFrom(start_minutes, c, d, acc) ==
    IF c < d
    THEN MustContainFrom(start_minutes, c + granularity, d,
                         acc \cup {minutes_to_watch(start_minutes + c)})
    ELSE acc

MustContain(s, d) == MustContainFrom(watch_to_minutes(s), 0, d, {})

\* filter(lambda place: place.availability.issuperset(must_contain), places)
RECURSIVE FilterComplete(_, _)
FilterComplete(ps, mc) ==
    IF ps = <<>> THEN <<>>
    ELSE IF mc \subseteq Head(ps).availability
         THEN <<Head(ps)>> \o FilterComplete(Tail(ps), mc)
         ELSE FilterComplete(Tail(ps), mc)

Filter ==
    /\ pc = "lookup"
    /\ ~(counter < duration)
    /\ must_contain' = MustContain(start_hour, duration)
    /\ complete_places' = FilterComplete(places, must_contain')
    /\ pc' = "select"
    /\ UNCHANGED <<start_hour, duration, inventory, counter, places, target,
                   via, rcounter, lookups, bookings, outcome, returned,
                   lastResponse, lookupFailed>>
    /\ UNCHANGED botVars

(***************************************************************************)
(* Favourite selection and fallback (src/main.py 131-139).                 *)
(***************************************************************************)
\* the (favid index, place index) pairs the nested loops can stop at
FavoriteHits(favs, cp) ==
    {h \in (1..Len(favs)) \X (1..Len(cp)) : cp[h[2]].number = favs[h[1]]}

\* variant: the loops nested the other way round (places outermost)
FavoriteChoiceByLookupOrder(favs, cp) ==
    LET hits == FavoriteHits(favs, cp)
    IN IF hits = {} THEN <<>>
       ELSE LET h == CHOOSE x \in hits :
                        \A y \in hits :
                            \/ x[2] < y[2]
                            \/ (x[2] = y[2] /\ x[1] <= y[1])
            IN <<cp[h[2]]>>

\* for favid in favorite_spots: for place in complete_places: first hit,
\* <<place>>, or <<>> when the loops end without one
FavoriteChoice(favs, cp) ==
    LET hits == FavoriteHits(favs, cp)
    IN IF hits = {} THEN <<>>
       ELSE LET h == CHOOSE x \in hits :
                        \A y \in hits :
                            \/ x[1] < y[1]
                            \/ (x[1] = y[1] /\ x[2] <= y[2])
            IN <<cp[h[2]]>>

SelectFavorite ==
    /\ pc = "select"
    /\ FavoriteChoice(favorite_spots, complete_places) # <<>>
    /\ target' = FavoriteChoice(favorite_spots, complete_places)
    /\ via' = "favorite"
    /\ rcounter' = 0
    /\ pc' = "reserve"
    /\ UNCHANGED <<start_hour, duration, inventory, counter, places,
                   must_contain, complete_places, lookups, bookings, outcome,
                   returned, lastResponse, lookupFailed>>
    /\ UNCHANGED botVars

\* print("Falling back"); make_reservation(places[0])
FallBack ==
    /\ pc = "select"
    /\ FavoriteChoice(favorite_spots, complete_places) = <<>>
    /\ via' = "fallback"
    /\ IF places = <<>>
       THEN /\ pc' = "crashed"
            /\ outcome' = "IndexError"
            /\ UNCHANGED <<target, rcounter>>
       ELSE /\ target' = <<places[1]>>
            /\ rcounter' = 0
            /\ pc' = "reserve"
            /\ UNCHANGED outcome
    /\ UNCHANGED <<start_hour, duration, inventory, counter, places,
                   must_contain, complete_places, lookups, bookings, returned,
                   lastResponse, lookupFailed>>
    /\ UNCHANGED botVars

(***************************************************************************)
(* make_reservation and reserve_place (src/main.py 101-129).               *)
(***************************************************************************)
\* variant: every booking call asks for maxres minutes
ReserveParamsUncapped(place, c) ==
    LET st == minutes_to_watch(watch_to_minutes(start_hour) + c)
        d == maxres
        en == minutes_to_watch(watch_to_minutes(st) + d)
    IN [resid |-> place.resid, start_time |-> st, end_time |-> en, d |-> d]

ReserveParams(place, c) ==
    LET st == minutes_to_watch(watch_to_minutes(start_hour) + c)
        d == Min(maxres, duration - c)
        en == minutes_to_watch(watch_to_minutes(st) + d)
    IN [resid |-> place.resid, start_time |-> st, end_time |-> en, d |-> d]

Reserve ==
    /\ pc = "reserve"
    /\ rcounter < duration
    /\ LET b == ReserveParams(target[1], rcounter)
       IN /\ bookings' = Append(bookings,
                                [resid |-> b.resid,
                                 start_time |-> b.start_time,
                                 end_time |-> b.end_time])
          /\ \/ \* the POST answers (any status: a non-200 is only printed)
                /\ rcounter' = rcounter + b.d
                /\ UNCHANGED <<pc, outcome>>
             \/ \* requests.post raises
                /\ pc' = "crashed"
                /\ outcome' = "RequestException"
                /\ UNCHANGED rcounter
    /\ UNCHANGED <<start_hour, duration, inventory, counter, places,
                   must_contain, complete_places, target, via, lookups,
                   returned, lastResponse, lookupFailed>>
    /\ UNCHANGED botVars

\* make_reservation returns: exit(0) after a favourite, end of script after
\* the fallback
Finish ==
    /\ pc = "reserve"
    /\ ~(rcounter < duration)
    /\ pc' = "done"
    /\ outcome' = IF via = "favorite" THEN "exit0" ELSE "end"
    /\ UNCHANGED <<start_hour, duration, inventory, counter, places,
                   must_contain, complete_places, target, via, rcounter,
                   lookups, bookings, returned, lastResponse, lookupFailed>>
    /\ UNCHANGED botVars

(***************************************************************************)
(* Specifications of the script.                                           *)
(***************************************************************************)
BotIdle ==
    /\ time_slot = <<>>
    /\ botpc = "idle"
    /\ room_types = <<>>
    /\ results = <<>>
    /\ fetched = <<>>
    /\ typeLookups = <<>>
    /\ reply = "none"

ScriptStart ==
    /\ pc = "lookup"
    /\ counter = 0
    /\ places = <<>>
    /\ must_contain = {}
    /\ complete_places = <<>>
    /\ target = <<>>
    /\ via = "none"
    /\ rcounter = 0
    /\ lookups = <<>>
    /\ bookings = <<>>
    /\ outcome = "running"
    /\ returned = [x \in AllResources |-> {}]
    /\ lastResponse = <<>>
    /\ lookupFailed = FALSE

\* a run over the whole inventory, for a one-call and a two-call window
Init ==
    /\ start_hour = <<"0", "8", ":", "3", "0">>
    /\ duration \in {2 * granularity, 9 * granularity}
    /\ inventory = AllResources
    /\ ScriptStart
    /\ BotIdle

\* every half-hour-aligned start of a day
StartHours ==
    {<<DigitChars[a + 1], DigitChars[b + 1], ":", m, "0">> :
        a \in 0..2, b \in 0..9, m \in {"0", "3"}} \
    {<<"2", DigitChars[b + 1], ":", m, "0">> : b \in 4..9, m \in {"0", "3"}}

\* a run against one seat, for every start and every window length
InitWindow ==
    /\ start_hour \in StartHours
    /\ duration \in {granularity * k : k \in 1..MaxSlots}
    /\ inventory = {102}
    /\ ScriptStart
    /\ BotIdle

Next ==
    \/ Lookup
    \/ Filter
    \/ SelectFavorite
    \/ FallBack
    \/ Reserve
    \/ Finish

Spec == Init /\ [][Next]_vars

SpecWindow == InitWindow /\ [][Next]_vars

(***************************************************************************)
(* The bot: get_available_seats (src/availability.py 20-116).              *)
(***************************************************************************)
BLACKLIST == {1, 2860, 4415}

\* the body of /infos: resource types with their descriptions
InfosBodies ==
    {<<[resource_type |-> 972, localized_description |-> "Sala A"],
       [resource_type |-> 1, localized_description |-> "Gruppi"],
       [resource_type |-> 973, localized_description |-> "Sala B"]>>,
     <<[resource_type |-> 2860, localized_description |-> "Docenti"]>>}

\* [room_type for room_type in types if resource_type not in BLACKLIST]
RECURSIVE FilterTypes(_)
FilterTypes(types) ==
    IF types = <<>> THEN <<>>
    ELSE IF Head(types).resource_type \notin BLACKLIST
         THEN <<Head(types)>> \o FilterTypes(Tail(types))
         ELSE FilterTypes(Tail(types))

\* variant: without an exact match the first slot is taken
TimeSlotIndexOrFirst(hours, ts) ==
    IF \E k \in 1..Len(hours) : hours[k].hour = ts
    THEN CHOOSE k \in 1..Len(hours) :
            hours[k].hour = ts /\ \A j \in 1..(k - 1) : hours[j].hour # ts
    ELSE IF Len(hours) > 0 THEN 1 ELSE 0

\* lines 77-81: index of the first slot whose hour is time_slot, 0 for None
TimeSlotIndex(hours, ts) ==
    IF \E k \in 1..Len(hours) : hours[k].hour = ts
    THEN CHOOSE k \in 1..Len(hours) :
            hours[k].hour = ts /\ \A j \in 1..(k - 1) : hours[j].hour # ts
    ELSE 0

\* line 84: time slot found and available
SlotAvailable(hours, idx) == idx # 0 /\ hours[idx].state = "available"

\* variant: the scan does not stop at the first slot that is not available
RECURSIVE ConsecutiveSlotsNoBreak(_, _)
ConsecutiveSlotsNoBreak(hours, i) ==
    IF i > Len(hours) THEN 0
    ELSE IF hours[i].state = "available"
         THEN 1 + ConsecutiveSlotsNoBreak(hours, i + 1)
         ELSE ConsecutiveSlotsNoBreak(hours, i + 1)

\* lines 86-91: consecutive available slots from index i on
RECURSIVE ConsecutiveSlots(_, _)
ConsecutiveSlots(hours, i) ==
    IF i > Len(hours) THEN 0
    ELSE IF hours[i].state = "available"
         THEN 1 + ConsecutiveSlots(hours, i + 1)
         ELSE 0

\* lines 93-110 (description and duration_hours, a float, are left out)
SeatEntry(resource, hours, idx) ==
    LET consecutive_slots == ConsecutiveSlots(hours, idx)
        last_available_index == idx + consecutive_slots - 1
    IN [resource_id |-> resource.resource_id,
        resource_name |-> resource.resource_name,
        places_available |-> hours[idx].places_available,
        consecutive_slots |-> consecutive_slots,
        duration_minutes |-> consecutive_slots * 30,
        end_time |-> hours[last_available_index].hour]

\* resource.get("hours", [])
HoursOf(resource) == IF resource.has_hours THEN resource.hours ELSE <<>>

\* lines 72-110: the seats of one body
RECURSIVE AvailableSeats(_, _)
AvailableSeats(resources, ts) ==
    IF resources = <<>> THEN <<>>
    ELSE LET hours == HoursOf(Head(resources))
             idx == TimeSlotIndex(hours, ts)
         IN (IF SlotAvailable(hours, idx)
             THEN <<SeatEntry(Head(resources), hours, idx)>>
             ELSE <<>>) \o AvailableSeats(Tail(resources), ts)

\* ---- what the service can answer to the bot ----
BotFirstSlot == <<"1", "2", ":", "3", "0">>

SlotStates == {"available", "full"}

\* hours from BotFirstSlot on, every half hour; the capacity of an available
\* slot is its position, so that slots can be told apart
BotHours ==
    UNION {{[k \in 1..n |->
               [hour |-> minutes_to_watch(watch_to_minutes(BotFirstSlot)
                                          + 30 * (k - 1)),
                state |-> st[k],
                places_available |-> IF st[k] = "available" THEN k ELSE 0]] :
             st \in [1..n -> SlotStates]} : n \in 0..MaxHours}

SeatRecords(id) ==
    {[resource_id |-> id, resource_name |-> "Posto", has_hours |-> TRUE,
      hours |-> h] : h \in BotHours}
    \cup {[resource_id |-> id, resource_name |-> "Posto",
           has_hours |-> FALSE, hours |-> <<>>]}

RECURSIVE CountRecords(_)
CountRecords(f) ==
    IF f = <<>> THEN 0 ELSE Len(Head(f).resources) + CountRecords(Tail(f))

\* bodies of n records, numbered on from the records already received
RECURSIVE SeatBodies(_, _)
SeatBodies(n, base) ==
    IF n = 0 THEN {<<>>}
    ELSE {Append(b, r) : b \in SeatBodies(n - 1, base),
                         r \in SeatRecords(base + n)}

\* lines 40-50: GET /infos, raise_for_status, filter the blacklist
FetchInfos ==
    /\ botpc = "infos"
    /\ \/ \E body \in InfosBodies :
             /\ room_types' = FilterTypes(body)
             /\ botpc' = "types"
             /\ UNCHANGED reply
       \/ \* raise_for_status raises; check_command answers the error
          /\ botpc' = "replied"
          /\ reply' = "error"
          /\ UNCHANGED room_types
    /\ UNCHANGED <<time_slot, results, fetched, typeLookups>>
    /\ UNCHANGED scriptVars

\* lines 56-114: one iteration of `for room_type in room_types`
FetchType ==
    /\ botpc = "types"
    /\ room_types # <<>>
    /\ LET resource_type == Head(room_types).resource_type
           room_name == Head(room_types).localized_description
       IN /\ typeLookups' = Append(typeLookups, resource_type)
          /\ \/ \E n \in 0..(MaxSeatRecords - CountRecords(fetched)) :
                \E resources \in SeatBodies(n, CountRecords(fetched)) :
                   LET available_seats == AvailableSeats(resources, time_slot)
                   IN /\ fetched' = Append(fetched,
                                           [room |-> room_name,
                                            resources |-> resources])
                      /\ results' =
                            IF available_seats # <<>>
                            THEN [r \in DOMAIN results \cup {room_name} |->
                                     IF r = room_name THEN available_seats
                                     ELSE results[r]]
                            ELSE results
                      /\ room_types' = Tail(room_types)
                      /\ UNCHANGED <<botpc, reply>>
             \/ \* raise_for_status raises; check_command answers the error
                /\ botpc' = "replied"
                /\ reply' = "error"
                /\ UNCHANGED <<room_types, results, fetched>>
    /\ UNCHANGED time_slot
    /\ UNCHANGED scriptVars

\* line 116 and format_results (119-145): the kind of message answered
Answer ==
    /\ botpc = "types"
    /\ room_types = <<>>
    /\ botpc' = "replied"
    /\ reply' = IF DOMAIN results = {} THEN "no_seats" ELSE "seats"
    /\ UNCHANGED <<time_slot, room_types, results, fetched, typeLookups>>
    /\ UNCHANGED scriptVars

ScriptIdle ==
    /\ start_hour = <<>>
    /\ duration = 0
    /\ inventory = {}
    /\ pc = "idle"
    /\ counter = 0
    /\ places = <<>>
    /\ must_contain = {}
    /\ complete_places = <<>>
    /\ target = <<>>
    /\ via = "none"
    /\ rcounter = 0
    /\ lookups = <<>>
    /\ bookings = <<>>
    /\ outcome = "idle"
    /\ returned = [x \in AllResources |-> {}]
    /\ lastResponse = <<>>
    /\ lookupFailed = FALSE

InitSeats ==
    /\ time_slot \in {<<"1", "2", ":", "3", "0">>, <<"1", "3", ":", "0", "0">>}
    /\ botpc = "infos"
    /\ room_types = <<>>
    /\ results = <<>>
    /\ fetched = <<>>
    /\ typeLookups = <<>>
    /\ reply = "none"
    /\ ScriptIdle

NextSeats ==
    \/ FetchInfos
    \/ FetchType
    \/ Answer

SpecSeats == InitSeats /\ [][NextSeats]_vars

(***************************************************************************)
(* Properties of the script.                                               *)
(***************************************************************************)
\* minutes since midnight of a five-character watch, read digit by digit
ClockValue(w) ==
    (10 * DigitValue(w[1]) + DigitValue(w[2])) * 60
    + 10 * DigitValue(w[4]) + DigitValue(w[5])

IsClock(w) ==
    /\ Len(w) = 5
    /\ w[3] = ":"
    /\ \A k \in {1, 2, 4, 5} : IsDigit(w[k])

\* C1: while the run has not crashed, the availability set held for every
\* resource id is the union of the bookable watches every lookup returned
\* for that id.
C1_AvailabilityIsUnion ==
    pc # "crashed" =>
        \A i \in 1..Len(places) :
            places[i].availability = returned[places[i].resid]

\* C2: once selection has run with no fully covering resource, no booking
\* call has been issued, the run has not crashed and make_reservation is not
\* running.
C2_NoCoverNoBooking ==
    (via # "none" /\ complete_places = <<>>) =>
        (bookings = <<>> /\ pc # "crashed" /\ pc # "reserve")

\* C3: every resource handed to make_reservation has an availability set that
\* is a superset of the required window.
C3_BookedIsCovering ==
    target # <<>> => must_contain \subseteq target[1].availability

\* indices of the priority list whose seat is fully covering
CoveringFavorites ==
    {i \in 1..Len(favorite_spots) :
        \E j \in 1..Len(complete_places) :
            complete_places[j].number = favorite_spots[i]}

\* C4: when a seat of the priority list is fully covering, the resource
\* selected is a fully covering one whose seat is the earliest of the
\* priority list among them, whatever the order of the lookup; every booking
\* call is for that resource, and the run ends with exit(0), not in the
\* fallback.
C4_FavoritePriority ==
    (via # "none" /\ CoveringFavorites # {}) =>
        /\ via = "favorite"
        /\ target # <<>>
        /\ \E j \in 1..Len(complete_places) : complete_places[j] = target[1]
        /\ \E i \in CoveringFavorites :
              /\ favorite_spots[i] = target[1].number
              /\ \A i2 \in CoveringFavorites : i <= i2
        /\ \A k \in 1..Len(bookings) : bookings[k].resid = target[1].resid
        /\ pc \in {"reserve", "done", "crashed"}
        /\ (pc = "done" => (outcome = "exit0" /\ bookings # <<>>))

\* a favourite was booked although another favourite came first in the lookup
C4_Witness ==
    /\ pc = "done"
    /\ via = "favorite"
    /\ Len(complete_places) >= 2
    /\ complete_places[1].number = 47
    /\ target[1].number = 46
    /\ bookings # <<>>

WellFormedRecord(r) == r.has_hours /\ Match(r.resource_name) # <<>>

\* C7: a lookup whose body holds malformed records does not end the run, and
\* leaves the places as the same body without those records would.
C7_MalformedSkipped ==
    [][(Len(lookups') > Len(lookups) /\ lastResponse' # <<>>) =>
          /\ pc' # "crashed"
          /\ places' = get_available(
                          SelectSeq(lastResponse'[1], WellFormedRecord),
                          places).places]_vars

\* C9: no booking call follows a failed lookup, and a run in which a lookup
\* failed ends with the lookup-failed outcome, not with any other.
C9_LookupFailureSurfaced ==
    lookupFailed =>
        /\ bookings = <<>>
        /\ pc \in {"done", "crashed"} => outcome = "RequestException"

\* C8: for a window that ends within the day, must_contain is exactly the
\* watches S, S+30, ... below S+D, each a well-formed HH:MM that survives
\* the round trip through watch_to_minutes and minutes_to_watch.
C8_RequiredWindow ==
    (pc \in {"select", "reserve", "done"}
     /\ ClockValue(start_hour) + duration <= 24 * 60) =>
        LET S == ClockValue(start_hour)
        IN /\ \A t \in must_contain :
                 /\ IsClock(t)
                 /\ minutes_to_watch(watch_to_minutes(t)) = t
           /\ {ClockValue(t) : t \in must_contain}
                 = {S + 30 * k : k \in 0..((duration \div 30) - 1)}
           /\ Cardinality(must_contain) = duration \div 30
           /\ start_hour \in must_contain
           /\ minutes_to_watch(S + duration) \notin must_contain

C8_Witness ==
    /\ pc = "select"
    /\ start_hour = <<"0", "8", ":", "3", "0">>
    /\ duration = 60
    /\ must_contain = {<<"0", "8", ":", "3", "0">>, <<"0", "9", ":", "0", "0">>}

\* the sub-windows of the lookup loop, in minutes
LookupStart(k) == ClockValue(lookups[k].start_hour)
LookupEnd(k) == LookupStart(k) + lookups[k].duration
\* the sub-windows of make_reservation, in minutes
BookingStart(k) == ClockValue(bookings[k].start_time)
BookingEnd(k) == ClockValue(bookings[k].end_time)

C10_Chained ==
    LET S == ClockValue(start_hour)
        nl == Len(lookups)
        nb == Len(bookings)
    IN /\ \A k \in 1..nl : lookups[k].duration \in 1..240
       /\ nl > 0 => (LookupStart(1) = S /\ LookupEnd(nl) <= S + duration)
       /\ \A k \in 1..(nl - 1) : LookupEnd(k) = LookupStart(k + 1)
       /\ pc \in {"select", "reserve", "done"} =>
             (nl > 0 /\ LookupEnd(nl) = S + duration)
       /\ \A k \in 1..nb : (BookingEnd(k) - BookingStart(k)) \in 1..240
       /\ nb > 0 => (BookingStart(1) = S /\ BookingEnd(nb) <= S + duration)
       /\ \A k \in 1..(nb - 1) : BookingEnd(k) = BookingStart(k + 1)
       /\ pc = "done" => (nb > 0 /\ BookingEnd(nb) = S + duration)

\* a measure of the work left: the minutes the running loop has still to
\* cover, above the rank of the phases that follow it
Variant ==
    CASE pc = "lookup" -> (duration - counter) + duration + 4
      [] pc = "select" -> duration + 3
      [] pc = "reserve" -> (duration - rcounter) + 2
      [] pc = "done" -> 1
      [] OTHER -> 0

\* C10: the sub-windows of the lookup loop and of make_reservation are
\* increasing, between 1 and 240 minutes long, gap-free, start at start_hour
\* and end at start_hour + duration; both loops terminate: every step of the
\* run lowers a measure that is never negative.
C10_SubWindows ==
    [][C10_Chained' /\ Variant' >= 0 /\ Variant' < Variant]_vars

C10_Witness ==
    /\ pc = "done"
    /\ Len(lookups) = 3
    /\ Len(bookings) = 3
    /\ duration = 510

(***************************************************************************)
(* Properties of the bot.                                                  *)
(***************************************************************************)
\* a resource has a slot at the requested time that is available
Qualifies(res) ==
    /\ res.has_hours
    /\ \E i \in 1..Len(res.hours) :
          res.hours[i].hour = time_slot /\ res.hours[i].state = "available"

EntriesOf(room) == IF room \in DOMAIN results THEN results[room] ELSE <<>>

\* C5: for a resource whose slot i at the requested time is available, the
\* entry reports the longest run n >= 1 of available slots from i on,
\* 30*n minutes, the hour of slot i+n-1 and the capacity of slot i.
C5_RunLength ==
    \A f \in 1..Len(fetched) :
      \A k \in 1..Len(fetched[f].resources) :
        LET res == fetched[f].resources[k]
            hours == res.hours
        IN \A i \in 1..Len(hours) :
             (res.has_hours /\ hours[i].hour = time_slot
              /\ hours[i].state = "available") =>
                \E x \in 1..Len(EntriesOf(fetched[f].room)) :
                   LET e == EntriesOf(fetched[f].room)[x]
                       n == e.consecutive_slots
                   IN /\ e.resource_id = res.resource_id
                      /\ n >= 1
                      /\ i + n - 1 <= Len(hours)
                      /\ \A j \in i..(i + n - 1) : hours[j].state = "available"
                      /\ (i + n <= Len(hours) =>
                             hours[i + n].state # "available")
                      /\ e.duration_minutes = 30 * n
                      /\ e.end_time = hours[i + n - 1].hour
                      /\ e.places_available = hours[i].places_available

\* a run that stops at a gap although a later slot is available again
C5_Witness ==
    \E f \in 1..Len(fetched) :
      \E x \in 1..Len(EntriesOf(fetched[f].room)) :
        \E k \in 1..Len(fetched[f].resources) :
          LET e == EntriesOf(fetched[f].room)[x]
              res == fetched[f].resources[k]
          IN /\ e.resource_id = res.resource_id
             /\ e.consecutive_slots = 1
             /\ Len(res.hours) = 3
             /\ res.hours[1].hour = time_slot
             /\ res.hours[3].state = "available"

\* C6: a resource has an entry if and only if it has a slot at the requested
\* time that is available, it has one entry then, and a category is in the
\* result if and only if one of its resources has an entry.
C6_EntryIffAvailable ==
    /\ \A f \in 1..Len(fetched) :
         LET room == fetched[f].room
             body == fetched[f].resources
             entries == EntriesOf(room)
         IN /\ \A k \in 1..Len(body) :
                 Qualifies(body[k]) <=>
                    \E x \in 1..Len(entries) :
                       entries[x].resource_id = body[k].resource_id
            /\ Len(entries)
                 = Cardinality({k \in 1..Len(body) : Qualifies(body[k])})
            /\ (room \in DOMAIN results) <=>
                  (\E k \in 1..Len(body) : Qualifies(body[k]))
    /\ \A room \in DOMAIN results :
         /\ results[room] # <<>>
         /\ \E f \in 1..Len(fetched) : fetched[f].room = room

\* one category with an entry, one without although its resource has hours
C6_Witness ==
    /\ botpc = "replied"
    /\ reply = "seats"
    /\ Len(fetched) = 2
    /\ \E f \in 1..2 : fetched[f].room \in DOMAIN results
    /\ \E f \in 1..2 :
          /\ fetched[f].room \notin DOMAIN results
          /\ Len(fetched[f].resources) = 1
          /\ Len(fetched[f].resources[1].hours) > 0

====
